---- MODULE Spec2Model ----
(***************************************************************************)
(* State-machine model of the occurrence engine of icekit_events           *)
(* (src/icekit_events/models.py): events, their repeat generators, the     *)
(* stored occurrences, and the memoized occurrence lists of the event      *)
(* objects.                                                                *)
(*                                                                         *)
(* Time.  A datetime is an integer number of ticks.  Values stored in the  *)
(* database are timezone-aware (UTC ticks); recurrence rules are evaluated *)
(* on naive local ticks (UTC + TZOffset).  A calendar day is Day ticks and *)
(* the smallest step of the clock (Micro) is one tick.                     *)
(***************************************************************************)
EXTENDS Integers, Sequences, FiniteSets, TLC

VARIABLES
    occurrences,   \* the Occurrence table: a set of rows, keyed by pk
    generators,    \* the EventRepeatsGenerator table: a set of rows, keyed by pk
    next_occ_pk,   \* next primary key of the Occurrence table
    next_gen_pk,   \* next primary key of the EventRepeatsGenerator table
    cache,         \* per event object: the memoized own_occurrences / occurrence_list
    now,           \* the clock (djtz.now()), in UTC ticks
    events,        \* per event: whether it is stored, its title and derived_from
    last           \* the operation that produced this state, its arguments and result

vars == <<occurrences, generators, next_occ_pk, next_gen_pk, cache, now,
          events, last>>

-----------------------------------------------------------------------------
(* Program constants (scaled) and bounds *)

None == -1

Micro == 1
Second == 1
Day == 2
REPEAT_LIMIT == 4
TZOffset == 1

\* the daylight-saving transition of the local timezone
DSTStart == 20
DSTShift == 1

MaxGenPk == 1
MaxNow == 0
MaxOps == 3

DAILY == "FREQ=DAILY"
NoReason == "None"

\* The events of the model: "child" is part of "parent".
Events == {"parent", "child"}

\* a third level of the part_of chain: "grandchild" is part of "child"
ChainEvents == {"grandchild"}

part_of(e) ==
    IF e = "child" THEN "parent"
    ELSE IF e = "grandchild" THEN "child"
    ELSE "none"

\* The events make_variation creates
Variations == {"variation"}

AllEvents == Events \cup ChainEvents \cup Variations

-----------------------------------------------------------------------------
(* Time helpers (icekit_events.utils.timeutils) *)

\* the offset of local time from UTC at the instant a: the local clock goes
\* forward by DSTShift at the instant DSTStart
UTCOffset(a) == IF a >= DSTStart THEN TZOffset + DSTShift ELSE TZOffset

coerce_naive(a) == a + UTCOffset(a)

\* the instant of a local time (the local times the transition skips,
\* taken with the offset before it, are the time of no occurrence here)
make_aware(n) ==
    IF n >= DSTStart + TZOffset + DSTShift THEN n - TZOffset - DSTShift
    ELSE n - TZOffset

floor_day(n) == n - (n % Day)

\* zero_datetime: the local day boundary of a stored datetime, as stored again
zero_datetime(a) == make_aware(floor_day(coerce_naive(a)))

Min(S) == CHOOSE x \in S : \A y \in S : x <= y

RECURSIVE SortedSeq(_)
SortedSeq(S) ==
    IF S = {} THEN <<>>
    ELSE LET m == Min(S) IN <<m>> \o SortedSeq(S \ {m})

-----------------------------------------------------------------------------
(* AbstractEventRepeatsGenerator *)

\* The period of a recurrence rule, in ticks
RulePeriod(rule) == IF rule = DAILY THEN Day ELSE 2 * Day

duration(g) == g.end - g.start

\* variant: UNTIL is written without the one-microsecond adjustment
build_complete_rrule_inclusive(g, until) ==
    LET dtstart == coerce_naive(g.start)
        UNTIL == IF g.is_all_day THEN until + Day ELSE until
    IN  IF g.recurrence_rule = ""
        THEN {dtstart}
        ELSE IF UNTIL < dtstart THEN {}
             ELSE {dtstart + k * RulePeriod(g.recurrence_rule) :
                      k \in 0..((UNTIL - dtstart) \div RulePeriod(g.recurrence_rule))}

\* The instants of the rule spec _build_complete_rrule writes: DTSTART plus
\* either a single RDATE or the RRULE with its inclusive UNTIL.
build_complete_rrule(g, until) ==
    LET dtstart == coerce_naive(g.start)
        UNTIL == IF g.is_all_day THEN until + Day - Micro ELSE until - Micro
    IN  IF g.recurrence_rule = ""
        THEN {dtstart}
        ELSE IF UNTIL < dtstart THEN {}
             ELSE {dtstart + k * RulePeriod(g.recurrence_rule) :
                      k \in 0..((UNTIL - dtstart) \div RulePeriod(g.recurrence_rule))}

get_rruleset(g, until) == build_complete_rrule(g, until)

\* get_rruleset() without until: the bound is repeat_end, or the horizon
get_rruleset_default(g, clock) ==
    build_complete_rrule(g, coerce_naive(IF g.repeat_end # None THEN g.repeat_end
                                         ELSE clock + REPEAT_LIMIT))

\* rruleset.between(after, before): both ends excluded
between(rruleset, after, before) == {t \in rruleset : after < t /\ t < before}

\* variant: the rule is expanded on aware times, and each instant is made
\* naive afterwards
generate_aware(g, until_arg, clock) ==
    LET start_dt == g.start - Second
        until0 == IF until_arg = None
                  THEN (IF g.repeat_end # None THEN g.repeat_end
                        ELSE clock + REPEAT_LIMIT)
                       + (IF g.is_all_day THEN Day ELSE 0)
                  ELSE until_arg
        n_start == coerce_naive(start_dt)
        n_until == coerce_naive(until0)
        occurrence_duration == IF duration(g) # 0 THEN duration(g) ELSE Day
        starts == SortedSeq(between(get_rruleset(g, n_until), n_start, n_until))
        aware(n) == g.start + (n - coerce_naive(g.start))
    IN  [i \in 1..Len(starts) |->
            <<coerce_naive(aware(starts[i])),
              coerce_naive(aware(starts[i]) + occurrence_duration)>>]

\* generate(until): the sequence of naive (start, end) pairs, in increasing order
generate(g, until_arg, clock) ==
    LET start_dt == g.start - Second
        until0 == IF until_arg = None
                  THEN (IF g.repeat_end # None THEN g.repeat_end
                        ELSE clock + REPEAT_LIMIT)
                       + (IF g.is_all_day THEN Day ELSE 0)
                  ELSE until_arg
        n_start == coerce_naive(start_dt)
        n_until == coerce_naive(until0)
        occurrence_duration == IF duration(g) # 0 THEN duration(g) ELSE Day
        starts == SortedSeq(between(get_rruleset(g, n_until), n_start, n_until))
    IN  [i \in 1..Len(starts) |-> <<starts[i], starts[i] + occurrence_duration>>]

-----------------------------------------------------------------------------
(* The memoized views of an event object *)

NoCache == [own_set |-> FALSE, own |-> {}, list_set |-> FALSE, list |-> {}]

\* event.occurrences.all(): the rows of the Occurrence table that belong to e
stored(occs, e) == {o \in occs : o.event = e}

\* An occurrence object held in a memoized list: of its fields the
\* operations read the primary key (membership) and the times (identity)
loaded(o) ==
    [pk |-> o.pk, start |-> o.start, end |-> o.end,
     original_start |-> o.original_start, original_end |-> o.original_end]

own_occurrences(occs, ch, e) ==
    IF ch[e].own_set THEN ch[e].own ELSE {loaded(o) : o \in stored(occs, e)}

\* variant: the parent's own occurrences only, whatever its own parent has
fresh_occurrence_list_flat(occs, e) ==
    {loaded(o) : o \in stored(occs, e)}

\* occurrence_list of a freshly loaded event object (nothing memoized), as
\* returned for the parent by visible_part_of
RECURSIVE fresh_occurrence_list(_, _)
fresh_occurrence_list(occs, e) ==
    IF stored(occs, e) # {} THEN {loaded(o) : o \in stored(occs, e)}
    ELSE IF part_of(e) # "none" THEN fresh_occurrence_list(occs, part_of(e))
    ELSE {}

occurrence_list(occs, ch, e) ==
    IF ch[e].list_set THEN ch[e].list
    ELSE IF own_occurrences(occs, ch, e) # {} THEN own_occurrences(occs, ch, e)
    ELSE IF part_of(e) # "none" THEN fresh_occurrence_list(occs, part_of(e))
    ELSE {}

\* the caches of e after its occurrence_list has been read
memoized(occs, ch, e) ==
    [ch EXCEPT ![e] = [own_set |-> TRUE, own |-> own_occurrences(occs, ch, e),
                       list_set |-> TRUE, list |-> occurrence_list(occs, ch, e)]]

invalidate_caches(ch, e) == [ch EXCEPT ![e] = NoCache]

-----------------------------------------------------------------------------
(* AbstractOccurrence *)

\* variant: a flagged save never clears is_cancelled
Occurrence_save_sticky_cancel(o, flag_user_modification) ==
    LET o1 == IF flag_user_modification
              THEN [o EXCEPT !.is_protected_from_regeneration = TRUE,
                             !.is_cancelled =
                                 @ \/ (o.cancel_reason \notin {NoReason, ""})]
              ELSE o
        o2 == IF o1.is_all_day
              THEN [o1 EXCEPT !.start = zero_datetime(o1.start),
                              !.end = zero_datetime(o1.end)]
              ELSE o1
    IN  [o2 EXCEPT !.original_start = IF @ = None THEN o2.start ELSE @,
                   !.original_end = IF @ = None THEN o2.end ELSE @]

\* variant: every save sets the original times to the current ones
Occurrence_save_retracking(o, flag_user_modification) ==
    LET o1 == IF flag_user_modification
              THEN [o EXCEPT !.is_protected_from_regeneration = TRUE,
                             !.is_cancelled = (o.cancel_reason \notin {NoReason, ""})]
              ELSE o
        o2 == IF o1.is_all_day
              THEN [o1 EXCEPT !.start = zero_datetime(o1.start),
                              !.end = zero_datetime(o1.end)]
              ELSE o1
    IN  [o2 EXCEPT !.original_start = o2.start, !.original_end = o2.end]

\* variant: a save that is not flagged as a user modification clears the
\* protection
Occurrence_save_unprotecting(o, flag_user_modification) ==
    LET o1 == [o EXCEPT !.is_protected_from_regeneration = flag_user_modification]
        o2 == IF o1.is_all_day
              THEN [o1 EXCEPT !.start = zero_datetime(o1.start),
                              !.end = zero_datetime(o1.end)]
              ELSE o1
    IN  [o2 EXCEPT !.original_start = IF @ = None THEN o2.start ELSE @,
                   !.original_end = IF @ = None THEN o2.end ELSE @]

\* Occurrence.save(): o is the object being saved (datetimes as stored)
Occurrence_save(o, flag_user_modification) ==
    LET o1 == IF flag_user_modification
              THEN [o EXCEPT !.is_protected_from_regeneration = TRUE,
                             !.is_cancelled = (o.cancel_reason \notin {NoReason, ""})]
              ELSE o
        o2 == IF o1.is_all_day
              THEN [o1 EXCEPT !.start = zero_datetime(o1.start),
                              !.end = zero_datetime(o1.end)]
              ELSE o1
        o3 == IF o2.original_start = None
              THEN [o2 EXCEPT !.original_start = o2.start] ELSE o2
    IN  IF o3.original_end = None
        THEN [o3 EXCEPT !.original_end = o3.end] ELSE o3

\* A new Occurrence object with the model's field defaults
NewOccurrence(pk, e, g, start, end) ==
    [pk |-> pk, event |-> e, generator |-> g, start |-> start, end |-> end,
     is_all_day |-> FALSE, original_start |-> None, original_end |-> None,
     is_protected_from_regeneration |-> FALSE, is_cancelled |-> FALSE,
     is_hidden |-> FALSE, cancel_reason |-> NoReason]

\* OccurrenceManager.regeneratable(): generated and not protected
regeneratable(occs, e) ==
    {o \in stored(occs, e) :
        o.generator # None /\ ~o.is_protected_from_regeneration}

\* variant: the identity set is taken from the current start and end
get_occurrence_times_current(occs, ch, e) ==
    [starts |-> {coerce_naive(o.start) : o \in occurrence_list(occs, ch, e)},
     ends   |-> {coerce_naive(o.end) : o \in occurrence_list(occs, ch, e)}]

\* get_occurrence_times_for_event: the naive original starts and ends of
\* the event's occurrence_list
get_occurrence_times_for_event(occs, ch, e) ==
    [starts |-> {coerce_naive(IF o.original_start # None THEN o.original_start
                              ELSE o.start) : o \in occurrence_list(occs, ch, e)},
     ends   |-> {coerce_naive(IF o.original_end # None THEN o.original_end
                              ELSE o.end) : o \in occurrence_list(occs, ch, e)}]

-----------------------------------------------------------------------------
(* EventBase: reconciliation *)

\* event.repeat_generators.all(), ordered by pk
repeat_generators(gens, e) ==
    LET mine == {g \in gens : g.event = e}
        pks == SortedSeq({g.pk : g \in mine})
    IN  [i \in 1..Len(pks) |-> CHOOSE g \in mine : g.pk = pks[i]]

\* variant: a candidate is skipped only when its start and its end both match
missing_of_generator_pair(g, until, clock, existing) ==
    LET pairs == generate(g, until, clock)
        keep == SelectSeq(pairs, LAMBDA p : ~(p[1] \in existing.starts
                                              /\ p[2] \in existing.ends))
    IN  [i \in 1..Len(keep) |->
            [start |-> keep[i][1], end |-> keep[i][2], generator |-> g]]

\* the candidates of one generator that are not skipped
missing_of_generator(g, until, clock, existing) ==
    LET pairs == generate(g, until, clock)
        keep == SelectSeq(pairs, LAMBDA p : ~(p[1] \in existing.starts
                                              \/ p[2] \in existing.ends))
    IN  [i \in 1..Len(keep) |->
            [start |-> keep[i][1], end |-> keep[i][2], generator |-> g]]

RECURSIVE concat_missing(_, _, _, _)
concat_missing(gs, until, clock, existing) ==
    IF gs = <<>> THEN <<>>
    ELSE missing_of_generator(Head(gs), until, clock, existing)
         \o concat_missing(Tail(gs), until, clock, existing)

\* missing_occurrence_data(until): the sequence of (start, end, generator)
missing_occurrence_data(occs, gens, ch, e, until, clock) ==
    concat_missing(repeat_generators(gens, e), until, clock,
                   get_occurrence_times_for_event(occs, ch, e))

\* variant: original_start and original_end are left for save() to set
created_occurrence_no_original(pk, e, c) ==
    Occurrence_save(
        [NewOccurrence(pk, e, c.generator.pk, make_aware(c.start), make_aware(c.end))
            EXCEPT !.is_all_day = c.generator.is_all_day],
        FALSE)

\* the Occurrence extend_occurrences creates for one candidate
created_occurrence(pk, e, c) ==
    Occurrence_save(
        [NewOccurrence(pk, e, c.generator.pk, make_aware(c.start), make_aware(c.end))
            EXCEPT !.original_start = make_aware(c.start),
                   !.original_end = make_aware(c.end),
                   !.is_all_day = c.generator.is_all_day],
        FALSE)

\* variant: the regeneratable occurrences are deleted before extending
extend_occurrences_purging(occs, gens, ch, pk0, e, until, clock) ==
    LET kept == occs \ regeneratable(occs, e)
        cands == missing_occurrence_data(kept, gens, ch, e, until, clock)
    IN  [occs  |-> kept \cup {created_occurrence(pk0 + i - 1, e, cands[i]) :
                                 i \in 1..Len(cands)},
         count |-> Len(cands)]

\* extend_occurrences(until): the table afterwards and the returned count;
\* pk0 is the first free primary key
extend_occurrences(occs, gens, ch, pk0, e, until, clock) ==
    LET cands == missing_occurrence_data(occs, gens, ch, e, until, clock)
    IN  [occs  |-> occs \cup {created_occurrence(pk0 + i - 1, e, cands[i]) :
                                 i \in 1..Len(cands)},
         count |-> Len(cands)]

\* variant: every occurrence of the event is deleted before extending
regenerate_occurrences_all(occs, gens, ch, pk0, e, until, clock) ==
    extend_occurrences(occs \ stored(occs, e), gens, ch, pk0, e, until, clock)

\* regenerate_occurrences(until): delete the regeneratable, then extend
regenerate_occurrences(occs, gens, ch, pk0, e, until, clock) ==
    extend_occurrences(occs \ regeneratable(occs, e), gens, ch, pk0, e, until, clock)

\* variant: no transaction, what was deleted before the failure stays deleted
regenerate_failed_partial(occs, e) == occs \ regeneratable(occs, e)

\* regenerate_occurrences raising while it extends: @transaction.atomic rolls
\* its deletions and creations back
regenerate_failed(occs, e) == occs

-----------------------------------------------------------------------------
(* AbstractEventRepeatsGenerator.save *)

\* variant: the end of an all-day generator is zeroed like its start
Generator_save_zeroed_end(g) ==
    IF g.end < g.start THEN [ok |-> FALSE, g |-> g]
    ELSE IF g.repeat_end # None /\ g.recurrence_rule = "" THEN [ok |-> FALSE, g |-> g]
    ELSE IF g.repeat_end # None /\ g.repeat_end < g.start THEN [ok |-> FALSE, g |-> g]
    ELSE IF g.is_all_day /\ coerce_naive(g.start) % Day # 0 THEN [ok |-> FALSE, g |-> g]
    ELSE IF g.is_all_day
         THEN [ok |-> TRUE,
               g  |-> [g EXCEPT !.start = zero_datetime(g.start),
                                !.end = zero_datetime(g.end)]]
         ELSE [ok |-> TRUE, g |-> g]

\* variant: a repeat end is accepted without a rule
Generator_save_no_rule_check(g) ==
    IF g.end < g.start THEN [ok |-> FALSE, g |-> g]
    ELSE IF g.repeat_end # None /\ g.repeat_end < g.start THEN [ok |-> FALSE, g |-> g]
    ELSE IF g.is_all_day /\ coerce_naive(g.start) % Day # 0 THEN [ok |-> FALSE, g |-> g]
    ELSE IF g.is_all_day
         THEN [ok |-> TRUE,
               g  |-> [g EXCEPT !.start = zero_datetime(g.start),
                                !.end = zero_datetime(g.end) + Day - Micro]]
         ELSE [ok |-> TRUE, g |-> g]

\* save(): the checks, then the all-day normalisation.  ok = FALSE stands
\* for GeneratorException (nothing is written).
Generator_save(g) ==
    IF g.end < g.start THEN [ok |-> FALSE, g |-> g]
    ELSE IF g.repeat_end # None /\ g.recurrence_rule = "" THEN [ok |-> FALSE, g |-> g]
    ELSE IF g.repeat_end # None /\ g.repeat_end < g.start THEN [ok |-> FALSE, g |-> g]
    ELSE IF g.is_all_day /\ coerce_naive(g.start) % Day # 0 THEN [ok |-> FALSE, g |-> g]
    ELSE IF g.is_all_day
         THEN [ok |-> TRUE,
               g  |-> [g EXCEPT !.start = zero_datetime(g.start),
                                !.end = zero_datetime(g.end) + Day - Micro]]
         ELSE [ok |-> TRUE, g |-> g]

-----------------------------------------------------------------------------
(* Inputs *)

\* local midnight of the first day, as a stored (aware) datetime
D1 == make_aware(Day)

\* the generators a caller saves: (rule, start, end, is_all_day, repeat_end)
GeneratorForms ==
    { \* timed, daily, unlimited
      [recurrence_rule |-> DAILY, start |-> D1 + 1, end |-> D1 + 2,
       is_all_day |-> FALSE, repeat_end |-> None],
      \* timed, daily, with a repeat end
      [recurrence_rule |-> DAILY, start |-> D1 + 1, end |-> D1 + 2,
       is_all_day |-> FALSE, repeat_end |-> D1 + 1 + 2 * Day],
      \* a single, non-repeating instance
      [recurrence_rule |-> "", start |-> D1 + 1, end |-> D1 + 2,
       is_all_day |-> FALSE, repeat_end |-> None],
      \* all-day, daily, with a repeat end
      [recurrence_rule |-> DAILY, start |-> D1, end |-> D1,
       is_all_day |-> TRUE, repeat_end |-> D1 + Day],
      \* rejected: end before start
      [recurrence_rule |-> DAILY, start |-> D1 + 1, end |-> D1,
       is_all_day |-> FALSE, repeat_end |-> None] }

\* timed daily generators whose repetition spans the daylight-saving
\* transition
DSTForms ==
    { [recurrence_rule |-> DAILY, start |-> DSTStart - 3, end |-> DSTStart - 1,
       is_all_day |-> FALSE, repeat_end |-> DSTStart + 3],
      [recurrence_rule |-> DAILY, start |-> DSTStart - 5, end |-> DSTStart - 3,
       is_all_day |-> FALSE, repeat_end |-> DSTStart + 1],
      [recurrence_rule |-> DAILY, start |-> DSTStart - 3, end |-> DSTStart - 3,
       is_all_day |-> FALSE, repeat_end |-> DSTStart + 5] }

Untils == {None, 4 * Day}

\* the generators saved when the generator itself is examined
AllForms ==
    GeneratorForms \cup
    { \* timed, daily, unlimited, end equal to start
      [recurrence_rule |-> DAILY, start |-> D1 + 1, end |-> D1 + 1,
       is_all_day |-> FALSE, repeat_end |-> None],
      \* a single instance that starts after the horizon
      [recurrence_rule |-> "", start |-> D1 + 1 + 3 * Day, end |-> D1 + 2 + 3 * Day,
       is_all_day |-> FALSE, repeat_end |-> None],
      \* all-day, daily, unlimited, ending on the day after its start
      [recurrence_rule |-> DAILY, start |-> D1, end |-> D1 + Day + 1,
       is_all_day |-> TRUE, repeat_end |-> None],
      \* all-day, daily, with a repeat end that is not at midnight
      [recurrence_rule |-> DAILY, start |-> D1, end |-> D1,
       is_all_day |-> TRUE, repeat_end |-> D1 + Day + 1],
      \* rejected: a repeat end without a rule
      [recurrence_rule |-> "", start |-> D1 + 1, end |-> D1 + 2,
       is_all_day |-> FALSE, repeat_end |-> D1 + 1 + 2 * Day],
      \* rejected: repeat end before start
      [recurrence_rule |-> DAILY, start |-> D1 + 1, end |-> D1 + 2,
       is_all_day |-> FALSE, repeat_end |-> D1],
      \* rejected: all-day, start not at midnight
      [recurrence_rule |-> DAILY, start |-> D1 + 1, end |-> D1 + 1,
       is_all_day |-> TRUE, repeat_end |-> None] }

\* the until values generate() is called with: none, a local midnight, a
\* local midday
GenUntils == {None, make_aware(3 * Day), 4 * Day}

\* a rule text the rule evaluator does not parse; save() does not validate
\* the rule
BadRuleForms ==
    { [recurrence_rule |-> "foo", start |-> D1 + 1, end |-> D1 + 2,
       is_all_day |-> FALSE, repeat_end |-> None] }

\* rrule.rrulestr accepts the rule text
rrulestr_parses(rule) == rule \in {"", DAILY}

\* the result of a call that raised an exception
Raised == -2

AddStarts == {2 * Day}

\* the edits of the admin's occurrence form: move the occurrence one tick
\* after its original time, or give a cancel reason
FormEdits == {[shift |-> 1, reason |-> ""], [shift |-> 0, reason |-> "Sold out"]}

\* the form of a call that saves no generator
NoForm ==
    [recurrence_rule |-> "", start |-> None, end |-> None,
     is_all_day |-> FALSE, repeat_end |-> None]

Op(name, e) ==
    [op |-> name, event |-> e, until |-> None, occ |-> None, start |-> None,
     end |-> None, hide |-> FALSE, reason |-> NoReason, ret |-> None,
     gen |-> None, form |-> NoForm, pairs |-> <<>>, dst |-> "none",
     n |-> last.n - 1]

\* last.n operations are left to explore
CanAct == last.n > 0

\* the events that are stored
ExistingEvents == {e \in AllEvents : events[e].stored}

-----------------------------------------------------------------------------
(* Operations *)

\* an event that is not stored
NoEvent == [stored |-> FALSE, title |-> "", derived_from |-> "none"]

\* a stored event that was created on its own
NewEvent(e) == [stored |-> TRUE, title |-> e, derived_from |-> "none"]

StartWith(ops, evs) ==
    /\ occurrences = {}
    /\ generators = {}
    /\ next_occ_pk = 1
    /\ next_gen_pk = 1
    /\ cache = [e \in AllEvents |-> NoCache]
    /\ events = [e \in AllEvents |-> IF e \in evs THEN NewEvent(e) ELSE NoEvent]
    /\ now \in 0..MaxNow
    /\ last = [op |-> "init", event |-> "none", until |-> None, occ |-> None,
               start |-> None, end |-> None, hide |-> FALSE, reason |-> NoReason,
               ret |-> None, gen |-> None, form |-> NoForm, pairs |-> <<>>,
               dst |-> "none", n |-> ops]

\* the events "parent" and "child" are stored
Start(ops) == StartWith(ops, Events)

\* an empty database, and MaxOps operations to come
Init == Start(MaxOps)

\* the same, with one operation more
InitDeep == Start(MaxOps + 1)

\* a read of event.occurrence_list (template, get_occurrences_range, ...)
ReadOccurrenceList ==
    /\ CanAct
    /\ \E e \in ExistingEvents :
        /\ ~cache[e].list_set
        /\ cache' = memoized(occurrences, cache, e)
        /\ last' = Op("occurrence_list", e)
        /\ UNCHANGED <<occurrences, generators, next_occ_pk, next_gen_pk, now, events>>

\* variant: the given end is ignored
added_occurrence_no_end(pk, e, start, end) ==
    Occurrence_save(
        [NewOccurrence(pk, e, None, start, start)
            EXCEPT !.is_protected_from_regeneration = TRUE],
        FALSE)

\* the row add_occurrence stores
added_occurrence(pk, e, start, end) ==
    Occurrence_save(
        [NewOccurrence(pk, e, None, start, IF end = None THEN start ELSE end)
            EXCEPT !.is_protected_from_regeneration = TRUE],
        FALSE)

\* event.add_occurrence(start, end=None)
AddOccurrence ==
    /\ CanAct
    /\ \E e \in ExistingEvents, start \in AddStarts :
      \E end \in {None, start + 1} :
        /\ occurrences' = occurrences \cup {added_occurrence(next_occ_pk, e, start, end)}
        /\ next_occ_pk' = next_occ_pk + 1
        /\ cache' = invalidate_caches(cache, e)
        /\ last' = [Op("add_occurrence", e) EXCEPT
                       !.start = start, !.end = end, !.occ = next_occ_pk]
        /\ UNCHANGED <<generators, next_gen_pk, now, events>>

\* variant: is_hidden is not set
cancelled_occurrence_unhidden(o, hide_cancelled_occurrence, reason) ==
    Occurrence_save(
        [o EXCEPT !.is_protected_from_regeneration = TRUE,
                  !.is_cancelled = TRUE,
                  !.cancel_reason = reason],
        FALSE)

\* the occurrence object after cancel_occurrence has set its fields and saved it
cancelled_occurrence(o, hide_cancelled_occurrence, reason) ==
    Occurrence_save(
        [o EXCEPT !.is_protected_from_regeneration = TRUE,
                  !.is_cancelled = TRUE,
                  !.is_hidden = hide_cancelled_occurrence,
                  !.cancel_reason = reason],
        FALSE)

\* variant: no membership test
occurrence_in_any(o, list) == TRUE

\* membership of an occurrence object in a list of occurrences (by pk)
occurrence_in(o, list) == \E x \in list : x.pk = o.pk

\* event.cancel_occurrence(occurrence, hide_cancelled_occurrence, reason);
\* the occurrence is any stored row, freshly loaded
CancelOccurrence ==
    /\ CanAct
    /\ \E e \in ExistingEvents, o \in occurrences, hide \in BOOLEAN :
        /\ IF ~occurrence_in(o, occurrence_list(occurrences, cache, e))
           THEN /\ occurrences' = occurrences
                /\ cache' = memoized(occurrences, cache, e)
                /\ last' = [Op("cancel_occurrence", e) EXCEPT
                               !.occ = o.pk, !.hide = hide, !.reason = "Cancelled",
                               !.ret = 0]
           ELSE /\ occurrences' =
                       (occurrences \ {o}) \cup {cancelled_occurrence(o, hide, "Cancelled")}
                /\ cache' = invalidate_caches(cache, e)
                /\ last' = [Op("cancel_occurrence", e) EXCEPT
                               !.occ = o.pk, !.hide = hide, !.reason = "Cancelled",
                               !.ret = 1]
        /\ UNCHANGED <<generators, next_occ_pk, next_gen_pk, now, events>>

\* event.extend_occurrences(until)
ExtendOccurrences ==
    /\ CanAct
    /\ \E e \in ExistingEvents, until \in Untils :
        LET r == extend_occurrences(occurrences, generators, cache, next_occ_pk,
                                    e, until, now)
        IN  /\ occurrences' = r.occs
            /\ next_occ_pk' = next_occ_pk + r.count
            /\ cache' = invalidate_caches(cache, e)
            /\ last' = [Op("extend_occurrences", e) EXCEPT
                           !.until = until, !.ret = r.count]
            /\ UNCHANGED <<generators, next_gen_pk, now, events>>

\* event.regenerate_occurrences(until)
RegenerateOccurrences ==
    /\ CanAct
    /\ \E e \in ExistingEvents, until \in Untils :
        LET r == regenerate_occurrences(occurrences, generators, cache, next_occ_pk,
                                        e, until, now)
        IN  /\ IF \E g \in generators :
                     g.event = e /\ ~rrulestr_parses(g.recurrence_rule)
               THEN \* generate() raises on the rule that does not parse
                    /\ occurrences' = regenerate_failed(occurrences, e)
                    /\ next_occ_pk' = next_occ_pk
                    /\ cache' = memoized(occurrences \ regeneratable(occurrences, e),
                                         cache, e)
                    /\ last' = [Op("regenerate_occurrences", e) EXCEPT
                                   !.until = until, !.ret = Raised]
               ELSE /\ occurrences' = r.occs
                    /\ next_occ_pk' = next_occ_pk + r.count
                    /\ cache' = invalidate_caches(cache, e)
                    /\ last' = [Op("regenerate_occurrences", e) EXCEPT
                                   !.until = until, !.ret = r.count]
            /\ UNCHANGED <<generators, next_gen_pk, now, events>>

\* EventRepeatsGenerator(event=e, ...).save(), with its post_save handler
\* regenerate_event_occurrences
SaveGeneratorFrom(forms, max_pk) ==
    /\ CanAct
    /\ \E e \in ExistingEvents, f \in forms :
        LET s == Generator_save([pk |-> next_gen_pk, event |-> e,
                                 recurrence_rule |-> f.recurrence_rule,
                                 start |-> f.start, end |-> f.end,
                                 is_all_day |-> f.is_all_day,
                                 repeat_end |-> f.repeat_end])
            gens == generators \cup {s.g}
            r == regenerate_occurrences(occurrences, gens, cache, next_occ_pk,
                                        e, None, now)
        IN  /\ next_gen_pk <= max_pk
            /\ IF ~s.ok
               THEN /\ last' = [Op("save_generator", e) EXCEPT
                                   !.ret = None, !.form = f]
                    /\ UNCHANGED <<occurrences, generators, next_occ_pk,
                                   next_gen_pk, cache>>
               ELSE IF \E g \in gens : g.event = e /\ ~rrulestr_parses(g.recurrence_rule)
               THEN \* the row is written; regenerate_occurrences raises in the
                    \* handler and its own transaction is rolled back
                    /\ generators' = gens
                    /\ next_gen_pk' = next_gen_pk + 1
                    /\ cache' = memoized(occurrences \ regeneratable(occurrences, e),
                                         cache, e)
                    /\ last' = [Op("save_generator", e) EXCEPT
                                   !.ret = Raised, !.form = f, !.gen = next_gen_pk]
                    /\ occurrences' = regenerate_failed(occurrences, e)
                    /\ next_occ_pk' = next_occ_pk
               ELSE /\ generators' = gens
                    /\ next_gen_pk' = next_gen_pk + 1
                    /\ occurrences' = r.occs
                    /\ next_occ_pk' = next_occ_pk + r.count
                    /\ cache' = invalidate_caches(cache, e)
                    /\ last' = [Op("save_generator", e) EXCEPT
                                   !.ret = r.count, !.form = f, !.gen = next_gen_pk]
            /\ UNCHANGED <<now, events>>

SaveGenerator == SaveGeneratorFrom(GeneratorForms, MaxGenPk)

\* the same save, of any of the forms
SaveAnyGenerator == SaveGeneratorFrom(AllForms \cup BadRuleForms, MaxGenPk + 1)

\* a call of generator.generate(until) on a stored generator
Generate ==
    /\ CanAct
    /\ \E g \in generators, until \in GenUntils :
        /\ last' = IF rrulestr_parses(g.recurrence_rule)
                   THEN [Op("generate", g.event) EXCEPT
                            !.gen = g.pk, !.until = until,
                            !.pairs = generate(g, until, now)]
                   ELSE [Op("generate", g.event) EXCEPT
                            !.gen = g.pk, !.until = until, !.ret = Raised]
        /\ UNCHANGED <<occurrences, generators, next_occ_pk, next_gen_pk, cache, now, events>>

\* the Occurrence table after a generator row is deleted: generator is a
\* foreign key with on_delete=SET_NULL
set_null(occs, g) ==
    {IF o.generator = g.pk THEN [o EXCEPT !.generator = None] ELSE o : o \in occs}

\* generator.delete(), with its post_delete handler regenerate_event_occurrences
DeleteGenerator ==
    /\ CanAct
    /\ \E g \in generators :
        LET gens == generators \ {g}
            r == regenerate_occurrences(set_null(occurrences, g), gens, cache,
                                        next_occ_pk, g.event, None, now)
        IN  /\ generators' = gens
            /\ occurrences' = r.occs
            /\ next_occ_pk' = next_occ_pk + r.count
            /\ cache' = invalidate_caches(cache, g.event)
            /\ last' = [Op("delete_generator", g.event) EXCEPT !.ret = r.count]
            /\ UNCHANGED <<next_gen_pk, now, events>>

\* BaseOccurrenceForm.save() on a stored occurrence: the admin edits its
\* start, end and cancel reason; the save is flagged as a user modification
OccurrenceFormSave ==
    /\ CanAct
    /\ \E o \in occurrences, ed \in FormEdits :
        /\ occurrences' = (occurrences \ {o}) \cup
               {Occurrence_save([o EXCEPT !.start = o.original_start + ed.shift,
                                          !.end = o.original_end + ed.shift,
                                          !.cancel_reason = ed.reason], TRUE)}
        /\ last' = [Op("occurrence_form_save", o.event) EXCEPT
                       !.occ = o.pk, !.reason = ed.reason]
        /\ UNCHANGED <<generators, next_occ_pk, next_gen_pk, cache, now, events>>

\* the default ordering of occurrences: start, all-day first, pk
occurrence_before(a, b) ==
    \/ a.start < b.start
    \/ /\ a.start = b.start
       /\ \/ a.is_all_day /\ ~b.is_all_day
          \/ a.is_all_day = b.is_all_day /\ a.pk < b.pk

RECURSIVE ordered(_)
ordered(S) ==
    IF S = {} THEN <<>>
    ELSE LET first == CHOOSE a \in S : \A b \in S \ {a} : occurrence_before(a, b)
         IN  <<first>> \o ordered(S \ {first})

\* variant: only the occurrences without a generator are cloned
clone_occurrences_ungenerated(occs, pk0, src, dst) ==
    LET sel == ordered({o \in stored(occs, src) : o.generator = None})
    IN  [occs  |-> occs \cup {Occurrence_save([sel[i] EXCEPT !.pk = pk0 + i - 1,
                                                             !.event = dst], FALSE) :
                                 i \in 1..Len(sel)},
         count |-> Len(sel)]

\* clone_event_relationships, first loop: the occurrences that are not
\* generated, or are protected, are saved again as occurrences of dst
clone_occurrences(occs, pk0, src, dst) ==
    LET sel == ordered({o \in stored(occs, src) :
                           o.generator = None \/ o.is_protected_from_regeneration})
    IN  [occs  |-> occs \cup {Occurrence_save([sel[i] EXCEPT !.pk = pk0 + i - 1,
                                                             !.event = dst], FALSE) :
                                 i \in 1..Len(sel)},
         count |-> Len(sel)]

\* clone_event_relationships, second loop: each generator is saved again as
\* a generator of dst, and each save regenerates the occurrences of dst
RECURSIVE clone_generators(_, _, _, _, _)
clone_generators(gs, st, dst, ch, clock) ==
    IF gs = <<>> THEN st
    ELSE LET g == Generator_save([Head(gs) EXCEPT !.pk = st.gen_pk, !.event = dst]).g
             gens == st.gens \cup {g}
             r == regenerate_occurrences(st.occs, gens, ch, st.occ_pk, dst, None, clock)
         IN  clone_generators(Tail(gs),
                              [occs |-> r.occs, gens |-> gens,
                               occ_pk |-> st.occ_pk + r.count,
                               gen_pk |-> st.gen_pk + 1,
                               ch |-> invalidate_caches(ch, dst)],
                              dst, invalidate_caches(ch, dst), clock)

\* src.clone_event_relationships(dst): the tables, the next primary keys
\* and the memoized lists afterwards
clone_event_relationships(occs, gens, ch, occ_pk, gen_pk, src, dst, clock) ==
    LET c == clone_occurrences(occs, occ_pk, src, dst)
    IN  clone_generators(repeat_generators(gens, src),
                         [occs |-> c.occs, gens |-> gens,
                          occ_pk |-> occ_pk + c.count, gen_pk |-> gen_pk,
                          ch |-> ch],
                         dst, ch, clock)

\* dst.publishing_clone_relations(src): src.clone_event_relationships(dst)
CloneEventRelationships ==
    /\ CanAct
    /\ \E src \in ExistingEvents, dst \in ExistingEvents :
        LET c == clone_event_relationships(occurrences, generators, cache,
                                           next_occ_pk, next_gen_pk, src, dst, now)
        IN  /\ src # dst
            /\ occurrences' = c.occs
            /\ generators' = c.gens
            /\ next_occ_pk' = c.occ_pk
            /\ next_gen_pk' = c.gen_pk
            /\ cache' = c.ch
            /\ last' = [Op("clone_event_relationships", src) EXCEPT !.dst = dst]
            /\ UNCHANGED <<now, events>>

\* variant: the occurrence at the split point is kept
truncated_after(occs, e, start) ==
    occs \ {x \in stored(occs, e) : x.start > start}

\* make_variation: the occurrences of e that start at or after the split
\* point are deleted
truncated(occs, e, start) ==
    occs \ {x \in stored(occs, e) : x.start >= start}

\* variant: the new event does not refer to the original
variation_event_underived(original, e) ==
    [stored |-> TRUE, title |-> original.title, derived_from |-> "none"]

\* make_variation: the new event has the original's cloneable fields
\* (title) and derived_from = the original
variation_event(original, e) ==
    [stored |-> TRUE, title |-> original.title, derived_from |-> e]

\* event.make_variation(occurrence): a new event derived from e gets the
\* clone of e's timeline, and e loses its occurrences from occurrence.start on
MakeVariation ==
    /\ CanAct
    /\ \E e \in ExistingEvents, v \in Variations, o \in occurrences :
        LET c == clone_event_relationships(occurrences, generators, cache,
                                           next_occ_pk, next_gen_pk, e, v, now)
        IN  /\ ~events[v].stored
            /\ events' = [events EXCEPT ![v] = variation_event(events[e], e)]
            /\ occurrences' = truncated(c.occs, e, o.start)
            /\ generators' = c.gens
            /\ next_occ_pk' = c.occ_pk
            /\ next_gen_pk' = c.gen_pk
            /\ cache' = invalidate_caches(cache, v)
            /\ last' = [Op("make_variation", e) EXCEPT !.occ = o.pk,
                                                       !.start = o.start, !.dst = v]
            /\ UNCHANGED now

\* deletion of one stored occurrence (admin inline, queryset delete)
DeleteOccurrence ==
    /\ CanAct
    /\ \E o \in occurrences :
        /\ occurrences' = occurrences \ {o}
        /\ last' = [Op("delete_occurrence", o.event) EXCEPT !.occ = o.pk]
        /\ UNCHANGED <<generators, next_occ_pk, next_gen_pk, cache, now, events>>

Next ==
    \/ ReadOccurrenceList
    \/ AddOccurrence
    \/ CancelOccurrence
    \/ ExtendOccurrences
    \/ RegenerateOccurrences
    \/ SaveGenerator
    \/ DeleteGenerator
    \/ OccurrenceFormSave
    \/ DeleteOccurrence
    \/ MakeVariation
    \/ CloneEventRelationships

Spec == Init /\ [][Next]_vars

SpecDeep == InitDeep /\ [][Next]_vars

\* a part_of chain of three stored events, their occurrences added, deleted
\* and generated, and their occurrence_list read
InitChain == StartWith(MaxOps, Events \cup ChainEvents)

NextChain ==
    \/ ReadOccurrenceList
    \/ AddOccurrence
    \/ DeleteOccurrence
    \/ SaveGenerator

SpecChain == InitChain /\ [][NextChain]_vars

\* the generator on its own: saves of every form, and calls of generate
InitGen == Start(MaxGenPk + 1)

NextGen ==
    \/ SaveAnyGenerator
    \/ Generate

SpecGen == InitGen /\ [][NextGen]_vars

\* generators that repeat across the daylight-saving transition, their
\* occurrences stored, cancelled and moved
SaveDSTGenerator == SaveGeneratorFrom(DSTForms, MaxGenPk + 1)

NextDST ==
    \/ SaveDSTGenerator
    \/ Generate
    \/ CancelOccurrence
    \/ OccurrenceFormSave

SpecDST == Init /\ [][NextDST]_vars

\* saves of generators, one of them with a rule that does not parse, and
\* regenerations of their events
SaveFailingGenerator == SaveGeneratorFrom(GeneratorForms \cup BadRuleForms, MaxGenPk + 1)

InitRegen == Start(MaxGenPk + 2)

NextRegen ==
    \/ SaveFailingGenerator
    \/ RegenerateOccurrences
    \/ CancelOccurrence

SpecRegen == InitRegen /\ [][NextRegen]_vars

-----------------------------------------------------------------------------
(* Properties *)

\* the step is a call of the named operation
Called(name) == last'.op = name

\* the number of e's stored occurrences with the given start and end
PairCount(occs, e, s, t) ==
    Cardinality({o \in stored(occs, e) : o.start = s /\ o.end = t})

\* C1: every occurrence of the event that is protected before
\* regenerate_occurrences is called is still stored after it, with all its
\* fields (start, end, generator, cancelled, hidden) unchanged.
C1_ProtectedKept ==
    [][Called("regenerate_occurrences") =>
        \A o \in stored(occurrences, last'.event) :
            o.is_protected_from_regeneration => o \in occurrences']_vars

\* a regeneration that created occurrences for an event holding a
\* protected generated occurrence
C1_Witness ==
    /\ last.op = "regenerate_occurrences"
    /\ last.ret > 0
    /\ \E o \in stored(occurrences, last.event) :
          o.is_protected_from_regeneration /\ o.generator # None

\* C2: after regenerate_occurrences(event) returns, every (start, end) pair
\* that a generator of the event yields up to the bound is represented by a
\* stored occurrence of the event with that original start or original end.
C2_AllGenerated ==
    last.op = "regenerate_occurrences" =>
        \A g \in {x \in generators : x.event = last.event} :
            \A i \in DOMAIN generate(g, last.until, now) :
                \E o \in stored(occurrences, last.event) :
                    \/ coerce_naive(o.original_start) = generate(g, last.until, now)[i][1]
                    \/ coerce_naive(o.original_end) = generate(g, last.until, now)[i][2]

\* C3: a second regenerate_occurrences, called right after a first one with
\* the same until and clock, leaves the same number of occurrences and the
\* same multiset of (start, end) pairs.
C3_Idempotent ==
    [][(/\ last.op = "regenerate_occurrences"
        /\ Called("regenerate_occurrences")
        /\ last'.event = last.event
        /\ last'.until = last.until) =>
          /\ Cardinality(stored(occurrences', last.event))
                = Cardinality(stored(occurrences, last.event))
          /\ \A o \in stored(occurrences, last.event) \cup stored(occurrences', last.event) :
                PairCount(occurrences', last.event, o.start, o.end)
                    = PairCount(occurrences, last.event, o.start, o.end)]_vars

\* C4: regenerate_occurrences leaves a protected generated occurrence as it
\* is and creates no occurrence that starts at its original start.
C4_NoDuplicateSlot ==
    [][Called("regenerate_occurrences") =>
        \A o \in stored(occurrences, last'.event) :
            (o.generator # None /\ o.is_protected_from_regeneration) =>
                /\ o \in occurrences'
                /\ \A n \in stored(occurrences', last'.event) \ occurrences :
                      n.start # o.original_start]_vars

\* a regeneration that created occurrences while the event held a generated
\* occurrence that was moved from its original start or cancelled
C4_Witness ==
    /\ last.op = "regenerate_occurrences"
    /\ last.ret > 0
    /\ \E o \in stored(occurrences, last.event) :
          /\ o.generator # None
          /\ o.is_protected_from_regeneration
          /\ (o.start # o.original_start \/ o.is_cancelled)

\* C5: missing_occurrence_data never yields a candidate whose start is the
\* original start, or whose end is the original end, of a stored occurrence
\* of the event.
C5_NoCollidingCandidate ==
    \A e \in Events, until \in Untils :
        LET cands == missing_occurrence_data(occurrences, generators, cache, e, until, now)
        IN  \A i \in DOMAIN cands :
                \A o \in stored(occurrences, e) :
                    /\ cands[i].start # coerce_naive(o.original_start)
                    /\ cands[i].end # coerce_naive(o.original_end)

\* missing_occurrence_data yields a candidate for an event that has stored
\* occurrences and a generator one of whose pairs is skipped
C5_Witness ==
    \E e \in Events, until \in Untils :
        /\ stored(occurrences, e) # {}
        /\ Len(missing_occurrence_data(occurrences, generators, cache, e, until, now)) > 0
        /\ \E g \in generators :
              /\ g.event = e
              /\ Len(generate(g, until, now))
                    > Len(missing_occurrence_data(occurrences, generators, cache,
                                                  e, until, now))

\* C6: extend_occurrences only adds: every occurrence stored before the
\* call is stored after it, with all its fields unchanged.
C6_ExtendAdditive ==
    [][Called("extend_occurrences") => occurrences \subseteq occurrences']_vars

\* an extension with an explicit until that created occurrences for an
\* event that already had a regeneratable occurrence
C6_Witness ==
    /\ last.op = "extend_occurrences"
    /\ last.until # None
    /\ last.ret > 0
    /\ \E o \in regeneratable(occurrences, last.event) :
          o.pk < next_occ_pk - last.ret

\* C7: extend_occurrences creates exactly one occurrence per candidate of
\* missing_occurrence_data, with the candidate's start and end as original
\* start and end, the candidate's generator and its is_all_day, unprotected;
\* it returns the number of occurrences created.
C7_OnePerCandidate ==
    [][Called("extend_occurrences") =>
        LET cands == missing_occurrence_data(occurrences, generators, cache,
                                             last'.event, last'.until, now)
            new == occurrences' \ occurrences
        IN  /\ last'.ret = Len(cands)
            /\ Cardinality(new) = Len(cands)
            /\ \A i \in DOMAIN cands :
                  \E o \in new :
                      /\ o.pk = next_occ_pk + i - 1
                      /\ o.event = last'.event
                      /\ coerce_naive(o.original_start) = cands[i].start
                      /\ coerce_naive(o.original_end) = cands[i].end
                      /\ o.generator = cands[i].generator.pk
                      /\ o.is_all_day = cands[i].generator.is_all_day
                      /\ ~o.is_protected_from_regeneration]_vars

\* an extension that created two or more occurrences of an all-day generator
C7_Witness ==
    /\ last.op = "extend_occurrences"
    /\ last.ret >= 2
    /\ \E o \in stored(occurrences, last.event) :
          o.pk = next_occ_pk - 1 /\ o.is_all_day /\ o.generator # None

C10_AddOne ==
    [][Called("add_occurrence") =>
        /\ occurrences \subseteq occurrences'
        /\ \E o \in occurrences' \ occurrences :
              /\ occurrences' \ occurrences = {o}
              /\ o.event = last'.event
              /\ o.generator = None
              /\ o.is_protected_from_regeneration
              /\ o.start = last'.start
              /\ o.end = (IF last'.end = None THEN last'.start ELSE last'.end)]_vars

\* an addition without an end to an event that already has occurrences
C10_Witness ==
    /\ last.op = "add_occurrence"
    /\ last.end = None
    /\ Cardinality(stored(occurrences, last.event)) >= 2
    /\ \E o \in stored(occurrences, last.event) : o.pk = last.occ /\ o.end = o.start

\* the generator a call of generate was made on
Generated(g) == last.op = "generate" /\ g.pk = last.gen

\* the starts of the pairs the last call of generate yielded
YieldedStarts == {last.pairs[i][1] : i \in DOMAIN last.pairs}

\* C11: for a timed generator with a rule and a repeat end R, generate()
\* without until yields, in strictly increasing order, exactly the instants
\* t of the rule anchored at start with start <= t < R, which are the
\* instants of get_rruleset(); an instant equal to R is excluded.
C11_BoundedRule ==
    \A g \in generators :
        (/\ Generated(g) /\ last.until = None
         /\ ~g.is_all_day /\ g.recurrence_rule # "" /\ g.repeat_end # None) =>
            /\ \A i \in 1..(Len(last.pairs) - 1) :
                  last.pairs[i][1] < last.pairs[i + 1][1]
            /\ YieldedStarts =
                  {t \in coerce_naive(g.start)..(coerce_naive(g.repeat_end) - 1) :
                      (t - coerce_naive(g.start)) % RulePeriod(g.recurrence_rule) = 0}
            /\ YieldedStarts = get_rruleset_default(g, now)

\* generate() on a timed daily generator whose repeat end is an instant of
\* the rule yielded two pairs
C11_Witness ==
    \E g \in generators :
        /\ Generated(g) /\ last.until = None
        /\ ~g.is_all_day /\ g.recurrence_rule # "" /\ g.repeat_end # None
        /\ (coerce_naive(g.repeat_end) - coerce_naive(g.start))
              % RulePeriod(g.recurrence_rule) = 0
        /\ Len(last.pairs) = 2

\* C12: the upper bound of generate(until) is repeat_end whenever the
\* generator has one: for a timed generator with repeat end R, no yielded
\* start is at or after R, whatever until is supplied.
C12_RepeatEndBound ==
    \A g \in generators :
        (Generated(g) /\ ~g.is_all_day /\ g.repeat_end # None) =>
            \A t \in YieldedStarts : t < coerce_naive(g.repeat_end)

\* C13: every pair generate() yields is (t, t + d) with d = end - start of
\* the stored generator, also when end equals start.
C13_PairDuration ==
    \A g \in generators :
        Generated(g) =>
            \A i \in DOMAIN last.pairs :
                last.pairs[i][2] = last.pairs[i][1] + (g.end - g.start)

\* C14: for a generator without a rule, generate(until) yields exactly one
\* pair, the generator's (start, end), whatever until and the clock are.
C14_SinglePair ==
    \A g \in generators :
        (Generated(g) /\ g.recurrence_rule = "") =>
            last.pairs = <<<<coerce_naive(g.start), coerce_naive(g.end)>>>>

\* the upper bound the last call of generate was to respect: repeat_end if
\* set, else the supplied until, else the horizon
SpecifiedBound(g) ==
    IF g.repeat_end # None THEN g.repeat_end
    ELSE IF last.until # None THEN last.until
    ELSE now + REPEAT_LIMIT

\* C15: for an all-day generator the calendar day of the upper bound is
\* included: a pair starting at 00:00 of the bound's day is yielded when the
\* rule matches that day, and no pair starts on a later day.  Stated for the
\* calls whose bound has one source: repeat_end, or the supplied until, or
\* the horizon.
C15_BoundDayIncluded ==
    \A g \in generators :
        (/\ Generated(g) /\ g.is_all_day /\ g.recurrence_rule # ""
         /\ (g.repeat_end = None \/ last.until = None)) =>
            LET day == floor_day(coerce_naive(SpecifiedBound(g)))
            IN  /\ (/\ day >= coerce_naive(g.start)
                    /\ (day - coerce_naive(g.start)) % RulePeriod(g.recurrence_rule) = 0)
                       => day \in YieldedStarts
                /\ \A t \in YieldedStarts : floor_day(t) <= day

\* C16: after a successful save of an all-day generator its start is at a
\* day boundary and its end is the last microsecond of a day: its duration is
\* N whole days minus one microsecond for some N >= 1, and N = 1 when the end
\* was given on the same day as the start.
C16_AllDayDuration ==
    /\ \A g \in generators :
          g.is_all_day =>
              /\ coerce_naive(g.start) % Day = 0
              /\ coerce_naive(g.end) % Day = Day - Micro
              /\ duration(g) >= Day - Micro
              /\ (duration(g) + Micro) % Day = 0
    /\ (last.op = "save_generator" /\ last.ret # None /\ last.form.is_all_day
        /\ floor_day(coerce_naive(last.form.end))
              = floor_day(coerce_naive(last.form.start))) =>
          \A g \in generators : g.pk = last.gen => duration(g) = Day - Micro

\* an all-day generator was saved whose end was given on the day after its
\* start, not at midnight
C16_Witness ==
    /\ last.op = "save_generator" /\ last.ret # None /\ last.form.is_all_day
    /\ coerce_naive(last.form.end) % Day # 0
    /\ \E g \in generators : g.pk = last.gen /\ duration(g) = 2 * Day - Micro

\* the form violates one of the checks of save()
Invalid(f) ==
    \/ f.end < f.start
    \/ f.repeat_end # None /\ f.recurrence_rule = ""
    \/ f.repeat_end # None /\ f.repeat_end < f.start
    \/ f.is_all_day /\ coerce_naive(f.start) % Day # 0

\* C17: a save of a generator with end < start, or with a repeat end and no
\* rule, or with a repeat end before start, or all-day with a start not at
\* local midnight, is rejected and stores or changes no generator and no
\* occurrence; any other save, also with end equal to start, is accepted.
C17_RejectedSave ==
    [][Called("save_generator") =>
        IF Invalid(last'.form)
        THEN /\ last'.ret = None
             /\ generators' = generators
             /\ occurrences' = occurrences
        ELSE /\ last'.ret # None
             /\ \E g \in generators' \ generators : g.pk = last'.gen]_vars

\* a save with a repeat end and no rule was rejected for an event that has
\* a generator and occurrences
C17_Witness ==
    /\ last.op = "save_generator" /\ last.ret = None
    /\ last.form.repeat_end # None /\ last.form.recurrence_rule = ""
    /\ stored(occurrences, last.event) # {}
    /\ \E g \in generators : g.event = last.event

\* C18: a save or a delete of a generator regenerates the occurrences of its
\* event in the same step: no step stores a change of the generators, whether
\* the call returns or raises, without the event's occurrences being those
\* regenerate_occurrences makes from the changed generators.
C18_RegeneratedWithChange ==
    [][generators' # generators =>
        LET removed == generators \ generators'
            before == IF removed = {} THEN occurrences
                      ELSE set_null(occurrences, CHOOSE g \in removed : TRUE)
        IN  /\ last'.ret # Raised
            /\ occurrences' =
                  regenerate_occurrences(before, generators', cache, next_occ_pk,
                                         last'.event, None, now).occs]_vars

\* C19: after a generator of an event is deleted, none of the unprotected
\* occurrences it had produced is stored, and the occurrences produced by the
\* event's other generators are all stored.
C19_DeletedGeneratorPurged ==
    [][Called("delete_generator") =>
        \A g \in generators \ generators' :
            \A o \in stored(occurrences, g.event) :
                /\ (o.generator = g.pk /\ ~o.is_protected_from_regeneration) =>
                       ~\E x \in occurrences' : x.pk = o.pk
                /\ (o.generator \notin {g.pk, None}) =>
                       \E x \in stored(occurrences', g.event) :
                           /\ x.generator = o.generator
                           /\ x.original_start = o.original_start
                           /\ x.original_end = o.original_end]_vars

\* the operations of an event that change stored occurrences
Mutating ==
    {"add_occurrence", "cancel_occurrence", "extend_occurrences",
     "regenerate_occurrences", "make_variation"}

\* C20: after a mutating operation, the memoized views of every event whose
\* occurrences it changed are invalidated: the next read of occurrence_list
\* on that event returns the occurrences stored then.
C20_CachesInvalidated ==
    [][last'.op \in Mutating =>
        \A e \in AllEvents :
            stored(occurrences', e) # stored(occurrences, e) =>
                occurrence_list(occurrences', cache', e)
                    = fresh_occurrence_list(occurrences', e)]_vars

-----------------------------------------------------------------------------
\* the occurrences (as loaded objects) stored for event e
OwnStored(e) == {loaded(o) : o \in stored(occurrences, e)}

\* the events from e up its part_of chain, nearest first
Chain(e) ==
    LET p == part_of(e)
    IN  IF p = "none" THEN <<e>>
        ELSE IF part_of(p) = "none" THEN <<e, p>>
        ELSE <<e, p, part_of(p)>>

\* C21: a read of an event's occurrence_list returns the event's own stored
\* occurrences when it has at least one; otherwise those of the nearest event
\* up its part_of chain that has at least one; and the empty list when no
\* event of the chain has any.
C21_ListFallsBack ==
    [][Called("occurrence_list") =>
        LET e == last'.event
            c == Chain(e)
            with == {i \in 1..Len(c) : OwnStored(c[i]) # {}}
        IN  cache'[e].list = IF with = {} THEN {}
                              ELSE OwnStored(c[Min(with)])]_vars

\* the list of "grandchild" was read while only "parent" had occurrences
C21_Witness ==
    /\ last.op = "occurrence_list"
    /\ last.event = "grandchild"
    /\ OwnStored("grandchild") = {}
    /\ OwnStored("child") = {}
    /\ OwnStored("parent") # {}
    /\ cache["grandchild"].list = OwnStored("parent")

-----------------------------------------------------------------------------
\* x has the field values of o, as a row of event dst
CopyOf(o, x, dst) == x = [o EXCEPT !.pk = x.pk, !.event = dst]

\* the rows of S that agree with o on every field but the primary key
Twins(o, S) == {p \in S : p = [o EXCEPT !.pk = p.pk]}

\* the source occurrences that are manually added or protected
Carried(src) ==
    {o \in stored(occurrences, src) :
        o.generator = None \/ o.is_protected_from_regeneration}

\* C22: clone_event_relationships(source, destination) stores in the
\* destination a new copy (new identity, event = destination) of each source
\* occurrence that is manually added or protected, and of each source
\* generator; every other new occurrence is made by a generator of the
\* destination, not copied; the source's occurrences and generators stay as
\* they were.
C22_CloneCopies ==
    [][Called("clone_event_relationships") =>
        LET src == last'.event
            dst == last'.dst
            new_occs == {x \in occurrences' : x.pk >= next_occ_pk}
            new_gens == {g \in generators' : g.pk >= next_gen_pk}
            src_gens == {g \in generators : g.event = src}
        IN  /\ \A o \in Carried(src) :
                 Cardinality({x \in new_occs : CopyOf(o, x, dst)})
                     = Cardinality(Twins(o, Carried(src)))
            /\ \A g \in src_gens :
                 Cardinality({h \in new_gens : CopyOf(g, h, dst)})
                     = Cardinality(Twins(g, src_gens))
            /\ Cardinality(new_gens) = Cardinality(src_gens)
            /\ \A x \in new_occs :
                 /\ x.event = dst
                 /\ \/ \E o \in Carried(src) : CopyOf(o, x, dst)
                    \/ \E h \in generators' : h.event = dst /\ x.generator = h.pk
            /\ stored(occurrences', src) = stored(occurrences, src)
            /\ {g \in generators' : g.event = src} = src_gens]_vars

\* a source with a generator, a protected and an unprotected generated
\* occurrence was cloned: the destination has the copy of the protected one
C22_Witness ==
    /\ last.op = "clone_event_relationships"
    /\ \E g \in generators, o \in occurrences, u \in occurrences :
        /\ g.event = last.event
        /\ o.event = last.event /\ o.generator = g.pk /\ o.is_protected_from_regeneration
        /\ u.event = last.event /\ u.generator = g.pk /\ ~u.is_protected_from_regeneration
        /\ \E x \in occurrences : x.pk # o.pk /\ CopyOf(o, x, last.dst)
        /\ \E h \in generators : h.pk # g.pk /\ CopyOf(g, h, last.dst)

-----------------------------------------------------------------------------
\* the fields of an occurrence that a clone of a timeline is compared on
Compared(o) ==
    [start |-> o.start, end |-> o.end, is_all_day |-> o.is_all_day,
     is_protected_from_regeneration |-> o.is_protected_from_regeneration,
     is_cancelled |-> o.is_cancelled, is_hidden |-> o.is_hidden,
     cancel_reason |-> o.cancel_reason,
     original_start |-> o.original_start, original_end |-> o.original_end]

\* the occurrences of a and of b correspond one-to-one on the compared fields
SameTimeline(occs, a, b) ==
    \A o \in stored(occs, a) \cup stored(occs, b) :
        Cardinality({x \in stored(occs, a) : Compared(x) = Compared(o)})
            = Cardinality({x \in stored(occs, b) : Compared(x) = Compared(o)})

\* C23: after clone_event_relationships into a destination that had no
\* occurrences and no generators (here: and no parent to fall back to, and
\* nothing memoized, from a source whose occurrences were all made by its
\* generators), the destination's occurrences correspond one-to-one
\* with the source's, equal on start, end, is_all_day, the protected,
\* cancelled and hidden flags, cancel_reason, original_start and original_end.
C23_CloneMirrors ==
    [][(/\ Called("clone_event_relationships")
        /\ stored(occurrences, last'.dst) = {}
        /\ {g \in generators : g.event = last'.dst} = {}
        /\ part_of(last'.dst) = "none"
        /\ ~cache[last'.dst].list_set
        /\ \A o \in stored(occurrences, last'.event) :
               \E g \in generators : g.event = o.event /\ g.pk = o.generator)
        => SameTimeline(occurrences', last'.event, last'.dst)]_vars

-----------------------------------------------------------------------------
\* C24: make_variation(event, occurrence) stores a new event, of an identity
\* other than the original's, whose derived_from is the original and whose
\* title is the original's; the original (its derived_from included) and
\* every other event stay as they were.
C24_VariationDerived ==
    [][Called("make_variation") =>
        LET e == last'.event
            v == last'.dst
        IN  /\ v # e
            /\ ~events[v].stored
            /\ events'[v].stored
            /\ events'[v].derived_from = e
            /\ events'[v].title = events[e].title
            /\ \A x \in AllEvents \ {v} : events'[x] = events[x]]_vars

\* a variation of "child" is stored
C24_Witness ==
    /\ last.op = "make_variation"
    /\ last.event = "child"
    /\ events[last.dst].stored
    /\ events[last.dst].derived_from = "child"
    /\ events[last.dst].title = events["child"].title
    /\ events["child"].derived_from = "none"

-----------------------------------------------------------------------------
\* C25: when make_variation(event, occurrence) returns, the original event
\* has no stored occurrence that starts at or after occurrence.start, and
\* each of its occurrences that started before occurrence.start is still
\* stored, unchanged.
C25_OriginalTruncated ==
    [][Called("make_variation") =>
        LET e == last'.event
            s == last'.start
        IN  /\ \A x \in stored(occurrences', e) : x.start < s
            /\ \A x \in stored(occurrences, e) : x.start < s => x \in occurrences']_vars

\* the original had occurrences before and at the split point; those before
\* are what it has left
C25_Witness ==
    /\ last.op = "make_variation"
    /\ \E x \in stored(occurrences, last.event) : x.start < last.start
    /\ \E x \in stored(occurrences, last.dst) : x.start = last.start
    /\ \A x \in stored(occurrences, last.event) : x.start < last.start

-----------------------------------------------------------------------------
\* the occurrence passed to the make_variation step is one of the event's own
SplitsOwn ==
    /\ Called("make_variation")
    /\ \E o \in stored(occurrences, last'.event) : o.pk = last'.occ

\* C26: make_variation(event, occurrence) truncates the original's
\* generators: afterwards no generator of the original yields a start at or
\* after occurrence.start.
C26_RepetitionStops ==
    [][SplitsOwn =>
        \A g \in generators' :
            g.event = last'.event =>
                \A i \in DOMAIN generate(g, None, now') :
                    make_aware(generate(g, None, now')[i][1]) < last'.start]_vars

-----------------------------------------------------------------------------
\* the original has one repeating generator, its occurrences are the
\* unmodified ones of that generator, and the split is not at the first
SplitsSeries ==
    /\ SplitsOwn
    /\ \E g \in generators :
        /\ g.event = last'.event
        /\ g.recurrence_rule = DAILY
        /\ \A h \in generators : h.event = last'.event => h = g
        /\ \A o \in stored(occurrences, last'.event) :
               o.generator = g.pk /\ ~o.is_protected_from_regeneration
    /\ \E o \in stored(occurrences, last'.event) : o.start < last'.start

\* C27: make_variation at a later occurrence of an event with one repeating
\* generator leaves the original with exactly its occurrences before the
\* split point, and gives the derived event occurrences that begin at the
\* split occurrence's start: none of them starts before it.
C27_VariationBeginsAtSplit ==
    [][SplitsSeries =>
        /\ stored(occurrences', last'.event)
              = {o \in stored(occurrences, last'.event) : o.start < last'.start}
        /\ \E x \in stored(occurrences', last'.dst) : x.start = last'.start
        /\ \A x \in stored(occurrences', last'.dst) : x.start >= last'.start]_vars

-----------------------------------------------------------------------------
\* C28: make_variation(event, occurrence) with an occurrence that is not in
\* the event's effective timeline fails and leaves no partial state: no
\* event, occurrence or generator is stored, changed or deleted.
C28_ForeignOccurrenceRejected ==
    [][(/\ Called("make_variation")
        /\ \A x \in fresh_occurrence_list(occurrences, last'.event) :
               x.pk # last'.occ)
        => /\ occurrences' = occurrences
           /\ generators' = generators
           /\ events' = events]_vars

-----------------------------------------------------------------------------
\* C29: regenerate_occurrences is all-or-nothing: when it fails while it
\* re-creates occurrences, after the regeneratable ones were deleted, the
\* stored occurrences after the call are exactly those before it. The call
\* is made directly, or by the handler of a generator's save.
C29_RegenerateAtomic ==
    [][((Called("regenerate_occurrences") \/ Called("save_generator"))
            /\ last'.ret = Raised)
        => occurrences' = occurrences]_vars

\* a regeneration failed for an event that has regeneratable occurrences and
\* a protected one, all of them stored
C29_Witness ==
    /\ last.op \in {"regenerate_occurrences", "save_generator"}
    /\ last.ret = Raised
    /\ regeneratable(occurrences, last.event) # {}
    /\ \E o \in stored(occurrences, last.event) : o.is_protected_from_regeneration

-----------------------------------------------------------------------------
\* the step clones the timeline of last'.event into last'.dst
Cloning == Called("clone_event_relationships") \/ Called("make_variation")

\* C30: an occurrence that is protected from regeneration stays protected
\* for as long as it is stored, whatever operation is applied; and the copy
\* that a clone of the timeline makes of a protected occurrence is protected.
C30_ProtectionKept ==
    [][/\ \A o \in occurrences, x \in occurrences' :
            (o.is_protected_from_regeneration /\ x.pk = o.pk)
                => x.is_protected_from_regeneration
       /\ Cloning =>
            \A o \in stored(occurrences, last'.event) :
                o.is_protected_from_regeneration =>
                    \E x \in stored(occurrences', last'.dst) :
                        /\ x.pk >= next_occ_pk
                        /\ x.is_protected_from_regeneration
                        /\ x.original_start = o.original_start
                        /\ x.original_end = o.original_end]_vars

\* an event was regenerated, and a generated occurrence of it that was
\* protected before is stored and protected
C30_Witness ==
    /\ last.op = "regenerate_occurrences"
    /\ \E o \in stored(occurrences, last.event) :
        /\ o.generator # None
        /\ o.is_protected_from_regeneration

\* a protected occurrence was cloned, and its copy is protected
C30_CloneWitness ==
    /\ last.op = "clone_event_relationships"
    /\ \E o \in stored(occurrences, last.event), x \in stored(occurrences, last.dst) :
        /\ o.generator # None
        /\ o.is_protected_from_regeneration
        /\ x.is_protected_from_regeneration
        /\ CopyOf(o, x, last.dst)

-----------------------------------------------------------------------------
\* C31: original_start and original_end of an occurrence are set at its
\* first save (for an added occurrence, to its start and end at that save)
\* and no later operation changes them, whatever edits of start and end,
\* user-modified saves and cancellations are made.
C31_OriginalsFixed ==
    [][/\ \A o \in occurrences, x \in occurrences' :
            x.pk = o.pk => /\ x.original_start = o.original_start
                           /\ x.original_end = o.original_end
       /\ \A x \in occurrences' :
            x.pk >= next_occ_pk =>
                /\ x.original_start # None
                /\ x.original_end # None
                /\ Called("add_occurrence") =>
                       x.original_start = x.start /\ x.original_end = x.end]_vars

\* an occurrence was moved through its form: its start is no longer its
\* original start
C31_Witness ==
    /\ last.op = "occurrence_form_save"
    /\ \E o \in occurrences :
        /\ o.pk = last.occ
        /\ o.start # o.original_start
        /\ o.end # o.original_end

-----------------------------------------------------------------------------
\* the operations that create occurrences from the pairs of generators
Generating == {"extend_occurrences", "regenerate_occurrences", "save_generator"}

\* C32: a save of an occurrence through the admin form (flagged as a user
\* modification) sets is_protected_from_regeneration, and sets is_cancelled
\* exactly when cancel_reason is not empty, also for an occurrence that was
\* cancelled before. A save without the flag changes neither field: a
\* generated occurrence is stored unprotected and not cancelled, and the copy
\* a clone stores has the flags of its source.
C32_FlaggedSave ==
    [][/\ Called("occurrence_form_save") =>
            \A x \in occurrences' :
                x.pk = last'.occ =>
                    /\ x.is_protected_from_regeneration
                    /\ x.is_cancelled <=> (x.cancel_reason \notin {NoReason, ""})
       /\ last'.op \in Generating =>
            \A x \in occurrences' :
                x.pk >= next_occ_pk =>
                    ~x.is_protected_from_regeneration /\ ~x.is_cancelled
       /\ Called("clone_event_relationships") =>
            \A o \in Carried(last'.event) :
                \E x \in stored(occurrences', last'.dst) :
                    /\ x.pk >= next_occ_pk
                    /\ CopyOf(o, x, last'.dst)]_vars

\* an occurrence that was cancelled and hidden was saved through the form
\* without a cancel reason: it is protected and no longer cancelled
C32_Witness ==
    /\ last.op = "occurrence_form_save"
    /\ last.reason = ""
    /\ \E o \in occurrences :
        /\ o.pk = last.occ
        /\ o.is_hidden
        /\ o.is_protected_from_regeneration
        /\ ~o.is_cancelled

-----------------------------------------------------------------------------
\* the local wall-clock time of day of a stored datetime
TimeOfDay(a) == coerce_naive(a) % Day

\* C33: every occurrence generated by a daily generator whose repetition
\* spans the daylight-saving transition has, as generated, the local time of
\* day of the generator's start as its start and that of the generator's
\* end as its end (when the generator's end is after its start).
C33_WallClockKept ==
    \A g \in generators, o \in occurrences :
        (o.generator = g.pk /\ g.recurrence_rule = DAILY /\ ~g.is_all_day) =>
            /\ TimeOfDay(o.original_start) = TimeOfDay(g.start)
            /\ g.end > g.start => TimeOfDay(o.original_end) = TimeOfDay(g.end)

\* a generator has occurrences stored before and after the transition
C33_Witness ==
    \E g \in generators, o \in occurrences, p \in occurrences :
        /\ o.generator = g.pk /\ p.generator = g.pk
        /\ g.recurrence_rule = DAILY /\ ~g.is_all_day
        /\ o.original_start < DSTStart
        /\ p.original_start >= DSTStart
        /\ UTCOffset(p.original_start) # UTCOffset(o.original_start)

-----------------------------------------------------------------------------
\* generator g of the event of o yields the original times of o
Yields(g, o, until, clock) ==
    /\ g.event = o.event
    /\ g.pk = o.generator
    /\ \E i \in DOMAIN generate(g, until, clock) :
          generate(g, until, clock)[i]
              = <<coerce_naive(o.original_start), coerce_naive(o.original_end)>>

\* C34: regenerate_occurrences computes its identity set from the
\* occurrences stored when it extends: also when occurrence_list was read
\* and memoized before the call, the slot of every regeneratable occurrence
\* it deleted, and that a generator still yields, is stored again.
C34_FreshIdentitySet ==
    [][(/\ Called("regenerate_occurrences")
        /\ last'.ret # Raised
        /\ cache[last'.event].list_set)
        => \A o \in regeneratable(occurrences, last'.event) :
              (\E g \in generators : Yields(g, o, last'.until, now)) =>
                  \E x \in stored(occurrences', last'.event) :
                      /\ x.original_start = o.original_start
                      /\ x.original_end = o.original_end]_vars

-----------------------------------------------------------------------------
\* the operations on an event's timeline, but for make_variation, which
\* deletes the occurrences of the original from the split point on
TimelineOps ==
    {"add_occurrence", "cancel_occurrence", "extend_occurrences",
     "regenerate_occurrences", "save_generator", "delete_generator",
     "clone_event_relationships"}

\* C35: an event that has at least one own occurrence still has at least
\* one after every completed add, cancel, extend, regenerate, generator save
\* or delete and clone on it (and so does not fall back to its parent's
\* timeline).
C35_PopulatedTerminal ==
    [][last'.op \in TimelineOps =>
        \A e \in {last'.event, last'.dst} \cap AllEvents :
            stored(occurrences, e) # {} => stored(occurrences', e) # {}]_vars

-----------------------------------------------------------------------------
\* C36: when an event without own occurrences, whose parent has
\* occurrences, is extended (nothing memoized), an occurrence is stored for
\* every pair its generators yield, also for a pair whose start or end is
\* an original time of an occurrence of the parent.
C36_ParentDoesNotSuppress ==
    [][(/\ Called("extend_occurrences")
        /\ stored(occurrences, last'.event) = {}
        /\ part_of(last'.event) # "none"
        /\ stored(occurrences, part_of(last'.event)) # {}
        /\ ~cache[last'.event].list_set)
        => \A g \in generators :
              g.event = last'.event =>
                  \A i \in DOMAIN generate(g, last'.until, now) :
                      \E x \in stored(occurrences', last'.event) :
                          /\ x.generator = g.pk
                          /\ coerce_naive(x.original_start)
                                = generate(g, last'.until, now)[i][1]
                          /\ coerce_naive(x.original_end)
                                = generate(g, last'.until, now)[i][2]]_vars

-----------------------------------------------------------------------------
\* C37: cancel_occurrence called on an event changes only occurrences of
\* that event: every occurrence of another event, one of the parent whose
\* timeline the event inherits included, is stored unchanged afterwards.
C37_CancelOwnOnly ==
    [][Called("cancel_occurrence") =>
        \A o \in occurrences :
            o.event # last'.event => o \in occurrences']_vars

-----------------------------------------------------------------------------
\* C38: every stored occurrence whose generator is not null refers to a
\* stored generator of the occurrence's own event, the occurrences stored
\* for a destination event by a clone or by make_variation included.
C38_GeneratorOfSameEvent ==
    \A o \in occurrences :
        o.generator # None =>
            \E g \in generators : g.pk = o.generator /\ g.event = o.event

-----------------------------------------------------------------------------
\* C39: extend_occurrences and regenerate_occurrences create no generated
\* occurrence whose original start and original end are those of another
\* generated occurrence stored for the same event after the call, two
\* generators yielding the same pair in that call included.
C39_NoTwinOccurrences ==
    [][(Called("extend_occurrences") \/ Called("regenerate_occurrences")) =>
        \A n \in stored(occurrences', last'.event) \ occurrences :
            \A o \in stored(occurrences', last'.event) :
                (/\ o.pk # n.pk
                 /\ o.generator # None
                 /\ n.generator # None
                 /\ o.original_start = n.original_start)
                    => o.original_end # n.original_end]_vars

====
